---------------------------- MODULE Spec2Model ----------------------------
(***************************************************************************)
(* cache-rocket: a launcher (startCacheServer) that starts a detached      *)
(* turborepo-remote-cache server before the build, and a cleanup           *)
(* (cleanupCacheServer) that stops it afterwards.  The two phases share    *)
(* only the state persisted with core.saveState / core.getState.           *)
(*                                                                         *)
(* Strings are TLA+ strings (TLC concatenates them with \o and slices them *)
(* with SubSeq).  The characters of the messages outside ASCII are written *)
(* as ASCII tokens: {U+2705}, {U+274C} and {U+1F4CB} in the cleanup, and    *)
(* {U+00E2}{U+0153}{U+2026}, the three characters launch-server.ts has at   *)
(* the start of its report, in the launcher.  A token {U+XXXX} stands for  *)
(* the one character of that code point wherever a string of the program   *)
(* holds it; an index into a string counts a token as eight.               *)
(***************************************************************************)
EXTENDS Integers, Sequences, FiniteSets, TLC

VARIABLES
    launcher,      \* locals, position and promise of startCacheServer
    cleanup,       \* locals, position and promise of cleanupCacheServer
    calls,         \* every call made on a collaborator, in order
    savedState,    \* the CI state store written by core.saveState
    ambientEnv,    \* process.env of the launcher
    reportFaults,  \* how many reporting calls of @actions/core may still throw
    probe          \* a record given to ServerEnvSchema directly, and the outcome

vars == <<launcher, cleanup, calls, savedState, ambientEnv, reportFaults, probe>>

---------------------------------------------------------------------------
(* Bounds of the model.                                                    *)

NumPorts == 2
NumPids == 2
\* how many reporting calls may throw in one job under SpecReportFaults
MaxReportFaults == 1

---------------------------------------------------------------------------
(* Values the collaborators can return.                                    *)

\* portfinder.getPortPromise(): 3000, 4001, 5002, ...
Ports == {3000 + 1001 * i : i \in 0..(NumPorts - 1)}

\* ChildProcess.pid: a positive integer, or undefined when the spawn failed.
\* A child whose spawn failed emits an 'error' event on a later tick; a child
\* object without pid and without events is what a scripted spawn returns.
Pids == {12345 + 41976 * i : i \in 0..(NumPids - 1)}

ChildProcesses ==
    {[hasPid |-> TRUE, pid |-> p, errorEvent |-> FALSE] : p \in Pids}
    \cup {[hasPid |-> FALSE, pid |-> 0, errorEvent |-> e] : e \in BOOLEAN}

\* what the 'error' event of a child whose spawn failed carries
SpawnError == [threw |-> TRUE, isError |-> TRUE, message |-> "spawn npx ENOENT", value |-> ""]

\* core.getInput(name): '' when the input is not set
StorageProviderInputs == {"", "s3"}
StoragePathInputs == {"", "my-bucket"}
TeamIdInputs == {"", "production"}
HostInputs == {"", "http://localhost"}

\* process.env of the launcher when it starts: it defines keys of the
\* ServerEnvironment and a variable the launcher publishes
AmbientEnvs ==
    { ("PATH" :> "/usr/bin") @@ ("PORT" :> "1") @@ ("STORAGE_PATH" :> "old")
      @@ ("STORAGE_PROVIDER" :> "ambient-provider") @@ ("TURBO_TOKEN" :> "stale")
      @@ ("TURBO_TEAM" :> "ambient-team") }

\* seeds of the bytes crypto.randomBytes returns
RandomSeeds == {0, 1}

\* what a failing collaborator throws: an Error with a message, or a value
\* that is no Error (here a string)
ErrorOf(msg) == [threw |-> TRUE, isError |-> TRUE, message |-> msg, value |-> ""]
NonError(v) == [threw |-> TRUE, isError |-> FALSE, message |-> "", value |-> v]
NoThrow == [threw |-> FALSE, isError |-> FALSE, message |-> "", value |-> ""]

Thrown == {ErrorOf("EACCES: permission denied"), NonError("boom")}

\* what a reporting call throws when writing to stdout fails
ReportThrown == {ErrorOf("write EPIPE")}

---------------------------------------------------------------------------
(* String helpers: the JavaScript conversions the code relies on.          *)

Char(s, i) == SubSeq(s, i, i)

DigitChars == <<"0", "1", "2", "3", "4", "5", "6", "7", "8", "9">>

IsDigit(c) == \E d \in 1..10 : DigitChars[d] = c

DigitValue(c) == (CHOOSE d \in 1..10 : DigitChars[d] = c) - 1

\* a conversion that emits the digits in the order it computes them, the last
\* digit first
RECURSIVE NumberToStringReversed(_)
NumberToStringReversed(n) ==
    IF n < 10 THEN DigitChars[n + 1]
    ELSE DigitChars[(n % 10) + 1] \o NumberToStringReversed(n \div 10)

\* Number.prototype.toString() of a non-negative integer
RECURSIVE NumberToString(_)
NumberToString(n) ==
    IF n < 10 THEN DigitChars[n + 1]
    ELSE NumberToString(n \div 10) \o DigitChars[(n % 10) + 1]

\* The white space of parseInt and of String.prototype.trim: the WhiteSpace
\* and LineTerminator characters of ECMAScript.  Tab, line feed, form feed,
\* carriage return and space have an escape or are written as they are; the
\* vertical tab U+000B, U+00A0, U+1680 and U+FEFF are written as the
\* characters themselves.  (TLC keeps a character outside ASCII intact in
\* the value of an expression, but not in a stored state: the contents the
\* behaviours use hold such characters as tokens.)
WhitespaceChars == {" ", "\t", "\n", "\r", "\f", "", " ", " ", "﻿"}

\* the same characters outside ASCII and the vertical tab, as tokens: U+000B,
\* U+00A0, U+1680, U+2000 to U+200A, U+2028, U+2029, U+202F, U+205F, U+3000
\* and U+FEFF
WhitespaceTokens ==
    {"{U+000B}", "{U+00A0}", "{U+1680}", "{U+2000}", "{U+2001}",
     "{U+2002}", "{U+2003}", "{U+2004}", "{U+2005}", "{U+2006}",
     "{U+2007}", "{U+2008}", "{U+2009}", "{U+200A}", "{U+2028}",
     "{U+2029}", "{U+202F}", "{U+205F}", "{U+3000}", "{U+FEFF}"}

\* c, one character or one token, is white space
IsWhitespace(c) == c \in WhitespaceChars \cup WhitespaceTokens

\* the length in s of the white space character that starts at i, 0 when none
\* does
WhitespaceAt(s, i) ==
    IF i <= Len(s) /\ IsWhitespace(Char(s, i)) THEN 1
    ELSE IF i + 7 <= Len(s) /\ IsWhitespace(SubSeq(s, i, i + 7)) THEN 8
    ELSE 0

\* the length in s of the white space character that ends at j, 0 when none
\* does
WhitespaceBefore(s, j) ==
    IF j >= 1 /\ IsWhitespace(Char(s, j)) THEN 1
    ELSE IF j >= 8 /\ IsWhitespace(SubSeq(s, j - 7, j)) THEN 8
    ELSE 0

\* the index of the first character of s at or after i that is no whitespace
RECURSIVE SkipWhitespace(_, _)
SkipWhitespace(s, i) ==
    IF WhitespaceAt(s, i) > 0 THEN SkipWhitespace(s, i + WhitespaceAt(s, i)) ELSE i

\* the value of the digits of s from i on, continuing acc
RECURSIVE ParseDigits(_, _, _)
ParseDigits(s, i, acc) ==
    IF i <= Len(s) /\ IsDigit(Char(s, i))
    THEN ParseDigits(s, i + 1, acc * 10 + DigitValue(Char(s, i)))
    ELSE acc

HexDigitChars == <<"0", "1", "2", "3", "4", "5", "6", "7", "8", "9",
                   "a", "b", "c", "d", "e", "f", "A", "B", "C", "D", "E", "F">>

IsHexDigit(c) == \E d \in 1..22 : HexDigitChars[d] = c

HexDigitValue(c) ==
    LET d == CHOOSE k \in 1..22 : HexDigitChars[k] = c
    IN  IF d > 16 THEN d - 7 ELSE d - 1

\* the value of the hexadecimal digits of s from i on, continuing acc
RECURSIVE ParseHexDigits(_, _, _)
ParseHexDigits(s, i, acc) ==
    IF i <= Len(s) /\ IsHexDigit(Char(s, i))
    THEN ParseHexDigits(s, i + 1, acc * 16 + HexDigitValue(Char(s, i)))
    ELSE acc

\* parseInt(s): leading white space skipped, an optional sign, then after a
\* prefix 0x or 0X the longest run of hexadecimal digits, and otherwise the
\* longest run of decimal digits; NaN when there is none
ParseInt(s) ==
    LET i == SkipWhitespace(s, 1)
        signed == i <= Len(s) /\ Char(s, i) \in {"+", "-"}
        j == IF signed THEN i + 1 ELSE i
        neg == signed /\ Char(s, i) = "-"
        hex == j + 1 <= Len(s) /\ SubSeq(s, j, j + 1) \in {"0x", "0X"}
        magnitude == IF hex THEN ParseHexDigits(s, j + 2, 0) ELSE ParseDigits(s, j, 0)
        found == IF hex THEN j + 2 <= Len(s) /\ IsHexDigit(Char(s, j + 2))
                 ELSE j <= Len(s) /\ IsDigit(Char(s, j))
    IN  IF found
        THEN [isNaN |-> FALSE, n |-> IF neg THEN 0 - magnitude ELSE magnitude]
        ELSE [isNaN |-> TRUE, n |-> 0]

\* s.includes(t)
Contains(s, t) ==
    \E i \in 1..(Len(s) - Len(t) + 1) : SubSeq(s, i, i + Len(t) - 1) = t

\* s.startsWith(t)
StartsWith(s, t) == Len(s) >= Len(t) /\ SubSeq(s, 1, Len(t)) = t

HexChars == <<"0", "1", "2", "3", "4", "5", "6", "7",
              "8", "9", "a", "b", "c", "d", "e", "f">>

\* an encoding that does not pad a byte below 16 to two characters
RECURSIVE HexOfUnpadded(_)
HexOfUnpadded(bytes) ==
    IF bytes = <<>> THEN ""
    ELSE (IF Head(bytes) < 16 THEN "" ELSE HexChars[(Head(bytes) \div 16) + 1])
         \o HexChars[(Head(bytes) % 16) + 1] \o HexOfUnpadded(Tail(bytes))

\* Buffer.toString('hex'): two lowercase hexadecimal characters per byte
RECURSIVE HexOf(_)
HexOf(bytes) ==
    IF bytes = <<>> THEN ""
    ELSE HexChars[(Head(bytes) \div 16) + 1] \o HexChars[(Head(bytes) % 16) + 1]
         \o HexOf(Tail(bytes))

TokenBytes == 32

\* crypto.randomBytes(n): n bytes, here drawn from a seed
RandomBytes(n, seed) == [i \in 1..n |-> (seed * (8 * i + 7)) % 256]

\* error instanceof Error ? error.message : String(error)
MessageOf(error) == IF error.isError THEN error.message ELSE error.value

---------------------------------------------------------------------------
(* Calls on collaborators.                                                 *)

Call(by, op, args) == [by |-> by, op |-> op, args |-> args, ok |-> TRUE]

\* the reporting calls of @actions/core, which only write to stdout
ReportOps == {"core.info", "core.debug", "core.startGroup", "core.endGroup"}

\* the calls that touch the file system, the network, the process table or
\* the CI runner's files
FallibleOps ==
    {"fs.mkdir", "portfinder.getPortPromise", "crypto.randomBytes",
     "core.getInput", "core.exportVariable", "spawn", "waitPort",
     "core.saveState", "core.getState", "process.kill", "fs.readFile"}

\* whether call c can throw when `left` reporting calls may still throw
CanThrowWith(c, left) == c.op \in FallibleOps \/ (left > 0 /\ c.op \in ReportOps)

CanThrow(c) == CanThrowWith(c, reportFaults)

\* the outcomes of one call
ThrownBy(c) == IF c.op \in ReportOps THEN ReportThrown ELSE Thrown

OutcomesWith(c, left) ==
    IF CanThrowWith(c, left) THEN {NoThrow} \cup ThrownBy(c) ELSE {NoThrow}

Outcomes(c) == OutcomesWith(c, reportFaults)

\* 1 when outcome o of call c is a reporting call that threw
ReportFault(c, o) == IF o.threw /\ c.op \in ReportOps THEN 1 ELSE 0

\* the calls of cs at which a throw can happen
FaultPoints(cs) == {k \in 1..Len(cs) : CanThrow(cs[k])}

\* how the calls cs can go: none throws (at |-> 0), or the call at a fault
\* point throws
Faults(cs) ==
    {[at |-> 0, error |-> NoThrow]}
    \cup UNION {{[at |-> k, error |-> e] : e \in ThrownBy(cs[k])} : k \in FaultPoints(cs)}

\* the reporting calls that threw when cs went as `fault` says
FaultUse(cs, fault) == IF fault.at = 0 THEN 0 ELSE ReportFault(cs[fault.at], fault.error)

\* the calls made when the k-th call of cs throws (all of cs when k = 0)
Attempt(cs, k) ==
    IF k = 0 THEN cs
    ELSE SubSeq(cs, 1, k - 1) \o <<[cs[k] EXCEPT !.ok = FALSE]>>

---------------------------------------------------------------------------
(* The launcher: startCacheServer.                                         *)

LogDir == "logs"
DefaultTeamId == "ci"
DefaultHost == "http://127.0.0.1"
\* a readiness poll on the host the API url is built from
WaitHostFromInput == launcher.host

WaitHost == "localhost"
WaitTimeout == 30000

\* an input that is used as it is
OrDefaultNever(x, d) == x

\* x || d on strings: the empty string is falsy
OrDefault(x, d) == IF x = "" THEN d ELSE x

\* an API url that ends with a slash
TurboApiWithSlash(host, port) == host \o ":" \o NumberToString(port) \o "/"

\* `${host}:${port}`
TurboApi(host, port) == host \o ":" \o NumberToString(port)

\* a ServerEnvironment whose storage fields are present together or not at all
ServerEnvDataBothOrNeither(port, token, storageProvider, storagePath) ==
    (IF storageProvider # "" /\ storagePath # ""
     THEN ("STORAGE_PATH" :> storagePath) @@ ("STORAGE_PROVIDER" :> storageProvider)
     ELSE <<>>)
    @@ ("PORT" :> NumberToString(port)) @@ ("TURBO_TOKEN" :> token)

\* { PORT, TURBO_TOKEN, ...(storageProvider && {...}), ...(storagePath && {...}) }
ServerEnvData(port, token, storageProvider, storagePath) ==
    (IF storagePath # "" THEN ("STORAGE_PATH" :> storagePath) ELSE <<>>)
    @@ (IF storageProvider # "" THEN ("STORAGE_PROVIDER" :> storageProvider) ELSE <<>>)
    @@ ("PORT" :> NumberToString(port)) @@ ("TURBO_TOKEN" :> token)

\* a JavaScript value with its type; of a string, the characters
JsString(s) == [type |-> "string", value |-> s]

\* the launcher's record, whose values are all strings (port.toString(), the
\* hex token, the inputs core.getInput returns)
JsStrings(data) == [k \in DOMAIN data |-> JsString(data[k])]

\* a schema in which the storage keys are required as well
SchemaShapeAllRequired ==
    [PORT |-> "required", TURBO_TOKEN |-> "required",
     STORAGE_PROVIDER |-> "required", STORAGE_PATH |-> "required"]

\* ServerEnvSchema: z.string() for PORT and TURBO_TOKEN, z.string().optional()
\* for the storage keys
SchemaShape ==
    [PORT |-> "required", TURBO_TOKEN |-> "required",
     STORAGE_PROVIDER |-> "optional", STORAGE_PATH |-> "optional"]

\* the keys of the schema for which a record of typed values has an issue: a
\* value that is no string, or a required key that is missing
SchemaIssues(typed) ==
    {k \in DOMAIN SchemaShape :
        IF k \in DOMAIN typed THEN typed[k].type # "string"
        ELSE SchemaShape[k] = "required"}

\* whether ServerEnvSchema.parse returns for the launcher's record
SchemaAccepts(data) == SchemaIssues(JsStrings(data)) = {}

\* z.object(...).parse strips the keys the schema does not name
SchemaParse(data) ==
    [k \in DOMAIN data \cap {"PORT", "TURBO_TOKEN", "STORAGE_PROVIDER", "STORAGE_PATH"}
        |-> data[k]]

\* a merge in which the ambient environment wins
SpawnEnvAmbientWins(ambient, validatedEnv) == ambient @@ validatedEnv

\* ServerEnvSchema.safeParse of a record of typed values
SafeParse(typed) ==
    LET issues == SchemaIssues(typed)
    IN  [success |-> issues = {}, issues |-> issues,
         data |-> IF issues = {} THEN SchemaParse(typed) ELSE <<>>]

\* { ...process.env, ...validatedEnv }
SpawnEnv(ambient, validatedEnv) == validatedEnv @@ ambient

\* a timeout message that leaves out the port
TimeoutMessageWithoutPort(port) == "Port did not open within 30 seconds"

\* `Port ${port} did not open within 30 seconds`
TimeoutMessage(port) == "Port " \o NumberToString(port) \o " did not open within 30 seconds"

\* `${serverProcess.pid}`
PidTemplate(child) == IF child.hasPid THEN NumberToString(child.pid) ELSE "undefined"

\* String(serverProcess.pid): "undefined" for a child without a pid
PidStateAsTemplate(child) ==
    IF child.hasPid THEN NumberToString(child.pid) ELSE "undefined"

\* a pid state that stands for a missing pid with 0
PidStateZero(child) == IF child.hasPid THEN NumberToString(child.pid) ELSE "0"

\* serverProcess.pid?.toString() ?? ''
PidState(child) == IF child.hasPid THEN NumberToString(child.pid) ELSE ""

StartFailedPrefix == "Failed to start Turborepo Remote Cache Server: "

\* the message of the launcher's catch block
StartFailedMessage(error) == StartFailedPrefix \o MessageOf(error)

\* the steps of startCacheServer that its try block encloses
LauncherSteps ==
    {"mkdir", "allocate", "inputs", "publish", "validate", "spawn", "wait",
     "report", "persist"}

InTry(step) == step \in LauncherSteps

\* the launcher l after `error` was thrown in `step`: the catch block handles
\* what is thrown inside the try block, and the promise resolves
LauncherThrow(l, step, error) ==
    IF InTry(step)
    THEN [l EXCEPT !.pc = "done", !.error = error, !.failedAt = step,
                   !.promise = "resolved"]
    ELSE [l EXCEPT !.pc = "done", !.error = error, !.failedAt = step,
                   !.promise = "rejected"]

\* a catch block that also persists an empty pid
CatchCallsPersistingNoPid(step, error) ==
    <<Call("launcher", "core.setFailed", <<StartFailedMessage(error)>>),
      Call("launcher", "core.saveState", <<"serverPid", "">>)>>

\* lines 90-91: the call of the catch block

CatchCalls(step, error) ==
    IF InTry(step)
    THEN <<Call("launcher", "core.setFailed", <<StartFailedMessage(error)>>)>>
    ELSE <<>>

\* One step of the launcher that makes the calls cs, which go as `fault`
\* says, and that continues as `next` when none throws.
LauncherStep(step, cs, fault, next) ==
    /\ reportFaults' = reportFaults - FaultUse(cs, fault)
    /\ IF fault.at = 0
       THEN /\ launcher' = next
            /\ calls' = calls \o cs
       ELSE /\ launcher' = LauncherThrow(launcher, step, fault.error)
            /\ calls' = calls \o Attempt(cs, fault.at) \o CatchCalls(step, fault.error)

\* line 21: await fs.mkdir(logDir, { recursive: true })
MkLogDir ==
    /\ launcher.pc = "mkdir"
    /\ LET cs == <<Call("launcher", "fs.mkdir", <<LogDir, "recursive">>)>>
       IN  \E fault \in Faults(cs) :
              LauncherStep("mkdir", cs, fault, [launcher EXCEPT !.pc = "allocate"])
    /\ UNCHANGED <<cleanup, savedState, ambientEnv, probe>>

\* lines 23-24: the port of portfinder and the token of randomBytes
AllocatePort ==
    /\ launcher.pc = "allocate"
    /\ LET cs == <<Call("launcher", "portfinder.getPortPromise", <<>>),
                   Call("launcher", "crypto.randomBytes", <<TokenBytes>>)>>
       IN  \E fault \in Faults(cs), p \in Ports, seed \in RandomSeeds :
              LauncherStep("allocate", cs, fault,
                 [launcher EXCEPT !.pc = "inputs", !.port = p,
                                  !.token = HexOf(RandomBytes(TokenBytes, seed))])
    /\ UNCHANGED <<cleanup, savedState, ambientEnv, probe>>

\* lines 26-31: the four inputs, their defaults, and the API url
ReadInputs ==
    /\ launcher.pc = "inputs"
    /\ LET cs == <<Call("launcher", "core.getInput", <<"storage-provider">>),
                   Call("launcher", "core.getInput", <<"storage-path">>),
                   Call("launcher", "core.getInput", <<"team-id">>),
                   Call("launcher", "core.getInput", <<"host">>)>>
       IN  \E fault \in Faults(cs),
              sp \in StorageProviderInputs, spath \in StoragePathInputs,
              team \in TeamIdInputs, h \in HostInputs :
              LauncherStep("inputs", cs, fault,
                 [launcher EXCEPT !.pc = "publish",
                     !.storageProvider = sp,
                     !.storagePath = spath,
                     !.teamId = OrDefault(team, DefaultTeamId),
                     !.host = OrDefault(h, DefaultHost),
                     !.hostInput = h,
                     !.teamInput = team,
                     !.turboApi = TurboApi(OrDefault(h, DefaultHost), launcher.port)])
    /\ UNCHANGED <<cleanup, savedState, ambientEnv, probe>>

\* lines 33-35: core.exportVariable of TURBO_API, TURBO_TOKEN and TURBO_TEAM
\* process.env after the core.exportVariable calls cs: exportVariable assigns
\* process.env[name] before it issues the command, so a call that throws has
\* assigned as well
ExportVariables(env, cs) ==
    LET names == {cs[j].args[1] : j \in DOMAIN cs}
        last(n) == CHOOSE j \in DOMAIN cs :
                      /\ cs[j].args[1] = n
                      /\ \A k \in DOMAIN cs : cs[k].args[1] = n => k <= j
    IN  [n \in DOMAIN env \cup names |->
            IF n \in names THEN cs[last(n)].args[2] ELSE env[n]]

\* lines 33-35: the three core.exportVariable calls, each of which sets the
\* variable in process.env as well
Publish ==
    /\ launcher.pc = "publish"
    /\ LET cs == <<Call("launcher", "core.exportVariable",
                        <<"TURBO_API", launcher.turboApi>>),
                   Call("launcher", "core.exportVariable",
                        <<"TURBO_TOKEN", launcher.token>>),
                   Call("launcher", "core.exportVariable",
                        <<"TURBO_TEAM", launcher.teamId>>)>>
       IN  \E fault \in Faults(cs) :
              /\ LauncherStep("publish", cs, fault, [launcher EXCEPT !.pc = "validate"])
              /\ ambientEnv' = ExportVariables(ambientEnv, Attempt(cs, fault.at))
    /\ UNCHANGED <<cleanup, savedState, probe>>

\* lines 37-49: the ServerEnvironment, its validation, and the child's env
Validate ==
    /\ launcher.pc = "validate"
    /\ LET data == ServerEnvData(launcher.port, launcher.token,
                                 launcher.storageProvider, launcher.storagePath)
           cs == <<Call("launcher", "ServerEnvSchema.parse", <<data>>)>>
       IN  IF SchemaAccepts(data)
           THEN LauncherStep("validate", cs, [at |-> 0, error |-> NoThrow],
                   [launcher EXCEPT !.pc = "spawn",
                       !.serverEnvData = data,
                       !.env = SpawnEnv(ambientEnv, SchemaParse(data))])
           ELSE LauncherStep("validate", cs, [at |-> 1, error |-> ErrorOf("Required")], launcher)
    /\ UNCHANGED <<cleanup, savedState, ambientEnv, probe>>

\* lines 51-62: spawn('npx', ['turborepo-remote-cache'], ...) and unref()
Spawn ==
    /\ launcher.pc = "spawn"
    /\ LET cs == <<Call("launcher", "spawn",
                        <<"npx", <<"turborepo-remote-cache">>,
                          [detached |-> TRUE, stdio |-> "ignore", env |-> launcher.env]>>),
                   Call("launcher", "unref", <<>>)>>
       IN  \E fault \in Faults(cs), child \in ChildProcesses :
              LauncherStep("spawn", cs, fault,
                 [launcher EXCEPT !.pc = "wait", !.child = child, !.spawned = TRUE])
    /\ UNCHANGED <<cleanup, savedState, ambientEnv, probe>>

\* lines 64-72: waitPort, and the throw when the port did not open
WaitPort ==
    /\ launcher.pc = "wait"
    /\ LET cs == <<Call("launcher", "waitPort",
                        <<WaitHost, launcher.port, WaitTimeout>>)>>
       IN  \E fault \in Faults(cs), open \in BOOLEAN :
              IF fault.at = 0 /\ ~open
              THEN /\ reportFaults' = reportFaults
                   /\ launcher' = LauncherThrow(
                                      [launcher EXCEPT !.polled = TRUE, !.open = FALSE],
                                      "wait", ErrorOf(TimeoutMessage(launcher.port)))
                   /\ calls' = calls \o cs
                         \o CatchCalls("wait", ErrorOf(TimeoutMessage(launcher.port)))
              ELSE LauncherStep("wait", cs, fault,
                      [launcher EXCEPT !.pc = "report", !.polled = TRUE,
                                       !.open = TRUE])
    /\ UNCHANGED <<cleanup, savedState, ambientEnv, probe>>

\* a readiness report that lists the token as well
ReportCallsWithToken(l) ==
    <<Call("launcher", "core.info", <<"{U+00E2}{U+0153}{U+2026} Turborepo Remote Cache Server started">>),
      Call("launcher", "core.info", <<"   PID: " \o PidTemplate(l.child)>>),
      Call("launcher", "core.info", <<"   Port: " \o NumberToString(l.port)>>),
      Call("launcher", "core.info", <<"   API: " \o l.turboApi>>),
      Call("launcher", "core.info", <<"   Token: " \o l.token>>),
      Call("launcher", "core.info", <<"   Team: " \o l.teamId>>)>>

\* lines 74-85: the readiness report
ReportCalls(l) ==
    <<Call("launcher", "core.info", <<"{U+00E2}{U+0153}{U+2026} Turborepo Remote Cache Server started">>),
      Call("launcher", "core.info", <<"   PID: " \o PidTemplate(l.child)>>),
      Call("launcher", "core.info", <<"   Port: " \o NumberToString(l.port)>>),
      Call("launcher", "core.info", <<"   API: " \o l.turboApi>>),
      Call("launcher", "core.info", <<"   Team: " \o l.teamId>>)>>
    \o (IF l.storageProvider # ""
        THEN <<Call("launcher", "core.info",
                    <<"   Storage Provider: " \o l.storageProvider>>)>>
        ELSE <<>>)
    \o (IF l.storagePath # ""
        THEN <<Call("launcher", "core.info",
                    <<"   Storage Path: " \o l.storagePath>>)>>
        ELSE <<>>)

Report ==
    /\ launcher.pc = "report"
    /\ LET cs == ReportCalls(launcher)
       IN  \E fault \in Faults(cs) :
              LauncherStep("report", cs, fault, [launcher EXCEPT !.pc = "persist"])
    /\ UNCHANGED <<cleanup, savedState, ambientEnv, probe>>

\* a handoff that saves the port first
PersistCallsPortFirst(l) ==
    <<Call("launcher", "core.saveState", <<"serverPort", NumberToString(l.port)>>),
      Call("launcher", "core.saveState", <<"serverPid", PidState(l.child)>>)>>

\* lines 87-88: core.saveState of serverPid, then of serverPort
PersistCalls(l) ==
    <<Call("launcher", "core.saveState", <<"serverPid", PidState(l.child)>>),
      Call("launcher", "core.saveState", <<"serverPort", NumberToString(l.port)>>)>>

\* a state store that keeps the value of a write that threw
RECURSIVE SavedEvenIfThrown(_, _)
SavedEvenIfThrown(store, cs) ==
    IF cs = <<>> THEN store
    ELSE SavedEvenIfThrown((Head(cs).args[1] :> Head(cs).args[2]) @@ store, Tail(cs))

\* the state store after the calls cs that returned
RECURSIVE Saved(_, _)
Saved(store, cs) ==
    IF cs = <<>> THEN store
    ELSE Saved(IF Head(cs).ok
               THEN (Head(cs).args[1] :> Head(cs).args[2]) @@ store
               ELSE store,
               Tail(cs))

Persist ==
    /\ launcher.pc = "persist"
    /\ LET cs == PersistCalls(launcher)
       IN  \E fault \in Faults(cs) :
              /\ LauncherStep("persist", cs, fault,
                    [launcher EXCEPT !.pc = "done", !.promise = "resolved"])
              /\ savedState' = Saved(savedState, Attempt(cs, fault.at))
    /\ UNCHANGED <<cleanup, ambientEnv, probe>>

LauncherInit ==
    [pc |-> "mkdir", port |-> 0, token |-> "", storageProvider |-> "",
     storagePath |-> "", teamId |-> "", host |-> "", hostInput |-> "",
     teamInput |-> "", turboApi |-> "", serverEnvData |-> <<>>, env |-> <<>>,
     child |-> [hasPid |-> FALSE, pid |-> 0, errorEvent |-> FALSE], spawned |-> FALSE,
     crashed |-> FALSE, uncaught |-> NoThrow,
     polled |-> FALSE, open |-> FALSE,
     error |-> NoThrow, failedAt |-> "", promise |-> "pending"]

\* the values the fields of a record given to the schema can have
ProbeValues ==
    {JsString("3000"), JsString(""), [type |-> "number", value |-> "8000"],
     [type |-> "null", value |-> ""], [type |-> "array", value |-> ""]}

\* the records given to the schema: each of the four fields absent or with
\* one of the values
ProbeRecords == UNION {[K -> ProbeValues] : K \in SUBSET (DOMAIN SchemaShape)}

NoProbe ==
    [done |-> FALSE, data |-> <<>>,
     result |-> [success |-> FALSE, issues |-> {}, data |-> <<>>]]

\* lines 9-14: ServerEnvSchema applied to a record that does not come from
\* the launcher, once the launcher has validated its own
SchemaProbe ==
    /\ launcher.pc = "spawn"
    /\ ~probe.done
    /\ \E typed \in ProbeRecords :
          probe' = [done |-> TRUE, data |-> typed, result |-> SafeParse(typed)]
    /\ UNCHANGED <<launcher, cleanup, calls, savedState, ambientEnv, reportFaults>>

\* the launcher's process has ended: its promise settled and no event of the
\* child is outstanding, or the process was ended by one
LauncherEnded ==
    \/ launcher.pc = "exited"
    \/ launcher.pc = "done" /\ ~(launcher.spawned /\ launcher.child.errorEvent)

\* lines 51-62: startCacheServer attaches no 'error' listener to the child, so
\* the 'error' event of a child whose spawn failed is an uncaught exception
\* that ends the process with exit code 1.  It is emitted on a tick after
\* spawn returned: while the launcher awaits waitPort, which it has called and
\* which then never settles (the launcher stops in that step, its promise
\* pending and its catch block not run), or when the launcher has run to its
\* end.
ChildErrorEvent ==
    /\ launcher.spawned
    /\ launcher.child.errorEvent
    /\ launcher.pc \in {"wait", "done"}
    /\ launcher' = [launcher EXCEPT
                      !.pc = "exited", !.crashed = TRUE, !.uncaught = SpawnError,
                      !.failedAt = IF launcher.pc = "wait" THEN "wait" ELSE @]
    /\ calls' = IF launcher.pc = "wait"
                THEN calls \o <<[Call("launcher", "waitPort",
                                      <<WaitHost, launcher.port, WaitTimeout>>)
                                     EXCEPT !.ok = FALSE]>>
                ELSE calls
    /\ UNCHANGED <<cleanup, savedState, ambientEnv, probe, reportFaults>>

LauncherNext ==
    \/ ChildErrorEvent
    \/ MkLogDir
    \/ AllocatePort
    \/ ReadInputs
    \/ Publish
    \/ Validate
    \/ Spawn
    \/ WaitPort
    \/ Report
    \/ Persist

---------------------------------------------------------------------------
(* The cleanup: cleanupCacheServer.                                        *)

LogFiles == <<"logs/turborepo-remote-cache.log",
              "logs/turborepo-remote-cache-error.log">>

\* a content of white space only: space, form feed, vertical tab, U+00A0,
\* U+3000, line feed, space
BlankLog == " \f{U+00A0}{U+3000}\n "

\* what fs.readFile(logFile, 'utf8') can resolve to
LogContents == {"", BlankLog, "Line 1\n\n  Line 3\n"}

\* how fs.readFile settles: with the content, or with an error
ReadResults ==
    {[content |-> c, error |-> NoThrow] : c \in LogContents}
    \cup {[content |-> "", error |-> e] : e \in Thrown}

\* String.prototype.trim()
RECURSIVE TrimStart(_)
TrimStart(s) ==
    IF WhitespaceAt(s, 1) > 0
    THEN TrimStart(SubSeq(s, 1 + WhitespaceAt(s, 1), Len(s)))
    ELSE s

RECURSIVE TrimEnd(_)
TrimEnd(s) ==
    IF WhitespaceBefore(s, Len(s)) > 0
    THEN TrimEnd(SubSeq(s, 1, Len(s) - WhitespaceBefore(s, Len(s))))
    ELSE s

\* a content check that trims nothing
TrimNothing(s) == s

Trim(s) == TrimEnd(TrimStart(s))

\* s.split('\n'): the pieces between the line feeds, at least one
RECURSIVE SplitLines(_, _)
SplitLines(s, line) ==
    IF Len(s) = 0 THEN <<line>>
    ELSE IF Char(s, 1) = "\n"
         THEN <<line>> \o SplitLines(SubSeq(s, 2, Len(s)), "")
         ELSE SplitLines(SubSeq(s, 2, Len(s)), line \o Char(s, 1))

Split(s) == SplitLines(s, "")

\* an indentation of one space
IndentLineOneSpace(line) == " " \o line

\* lines.map((line) => `  ${line}`)
IndentLine(line) == "  " \o line

MapIndent(lines) == [i \in 1..Len(lines) |-> IndentLine(lines[i])]

\* lines.join('\n')
RECURSIVE Join(_)
Join(lines) ==
    IF Len(lines) = 0 THEN ""
    ELSE IF Len(lines) = 1 THEN lines[1]
         ELSE lines[1] \o "\n" \o Join(Tail(lines))

\* logContent.split('\n').map(...).join('\n')
IndentedContent(logContent) == Join(MapIndent(Split(logContent)))

\* core.getState(name): '' when the key was never saved
GetState(store, name) == IF name \in DOMAIN store THEN store[name] ELSE ""

\* a cleanup that reads the other key
PidKeyIsPort == "serverPort"

\* the key cleanupCacheServer reads
PidKey == "serverPid"

NotStartedMessage == "{U+274C} Turborepo Remote Cache Server was not started or PID not found"

StoppedMessage(serverPid) ==
    "{U+2705} Turborepo Remote Cache Server stopped (PID: " \o serverPid \o ")"

StopFailedMessage(serverPid, error) ==
    "{U+274C} Failed to stop server process " \o serverPid \o ": " \o MessageOf(error)

\* a diagnostic that leaves out the file
ReadFailedMessageWithoutPath(logFile, error) ==
    "Could not read log file: " \o MessageOf(error)

ReadFailedMessage(logFile, error) ==
    "Could not read log file " \o logFile \o ": " \o MessageOf(error)

GroupTitle(logFile) == "{U+1F4CB} " \o logFile

PostFailedPrefix == "Error in post action: "

\* a catch block that reads error.message of whatever was thrown
PostFailedMessageOfMessage(error) == PostFailedPrefix \o error.message

\* the message of the cleanup's catch block
PostFailedMessage(error) == PostFailedPrefix \o MessageOf(error)

\* the steps of cleanupCacheServer that its try block encloses
CleanupSteps == {"getState", "notStarted", "stopServer", "displayLogs"}

InCleanupTry(step) == step \in CleanupSteps

\* the cleanup after `error` escaped `step`, and the calls it makes
CleanupThrow(c, step, error) ==
    IF InCleanupTry(step)
    THEN [c EXCEPT !.pc = "done", !.error = error, !.failedAt = step,
                   !.promise = "resolved"]
    ELSE [c EXCEPT !.pc = "done", !.error = error, !.failedAt = step,
                   !.promise = "rejected"]

CleanupCatchCalls(step, error) ==
    IF InCleanupTry(step)
    THEN <<Call("cleanup", "core.setFailed", <<PostFailedMessage(error)>>)>>
    ELSE <<>>

\* a check against undefined, which core.getState never returns
NoPidIfUndefined(serverPid) == FALSE

\* !serverPid
NoPid(serverPid) == serverPid = ""

\* lines 235-242: the state read, and the return when there is no pid
ReadState ==
    /\ LauncherEnded
    /\ cleanup.pc = "getState"
    /\ LET get == Call("cleanup", "core.getState", <<PidKey>>)
           pid == GetState(savedState, PidKey)
           note == Call("cleanup", "core.info", <<NotStartedMessage>>)
       IN  \E o \in Outcomes(get) :
           \E o2 \in (IF ~o.threw /\ NoPid(pid) THEN Outcomes(note) ELSE {NoThrow}) :
              /\ reportFaults' = reportFaults - ReportFault(note, o2)
              /\ IF o.threw
                 THEN /\ cleanup' = CleanupThrow(cleanup, "getState", o)
                      /\ calls' = calls \o Attempt(<<get>>, 1)
                                        \o CleanupCatchCalls("getState", o)
                 ELSE IF NoPid(pid)
                 THEN IF o2.threw
                      THEN /\ cleanup' = CleanupThrow([cleanup EXCEPT !.serverPid = pid],
                                                      "notStarted", o2)
                           /\ calls' = calls \o <<get>> \o Attempt(<<note>>, 1)
                                             \o CleanupCatchCalls("notStarted", o2)
                      ELSE /\ cleanup' = [cleanup EXCEPT !.pc = "done", !.serverPid = pid,
                                                         !.promise = "resolved"]
                           /\ calls' = calls \o <<get, note>>
                 ELSE /\ cleanup' = [cleanup EXCEPT !.pc = "stopServer", !.serverPid = pid]
                      /\ calls' = calls \o <<get>>
    /\ UNCHANGED <<launcher, savedState, ambientEnv, probe>>

Signal == "SIGTERM"

\* process.kill(pid, signal) throws a TypeError when pid is no integer
KillOutcomes(c) ==
    IF c.args[1].isNaN
    THEN {ErrorOf("The \"pid\" argument must be of type number. Received type number (NaN)")}
    ELSE Outcomes(c)

\* a stopServer whose failure ends the cleanup
StopServerNextReturns(caught) == IF caught.threw THEN "done" ELSE "displayLogs"

\* lines 244-245: stopServer catches what kill throws, so displayLogs runs
\* next whether the signal was sent or not
StopServerNext(caught) == "displayLogs"

\* lines 196-204 and 244: stopServer(serverPid)
StopServer ==
    /\ cleanup.pc = "stopServer"
    /\ LET pid == cleanup.serverPid
           kill == Call("cleanup", "process.kill", <<ParseInt(pid), Signal>>)
           stopped == Call("cleanup", "core.info", <<StoppedMessage(pid)>>)
       IN  \E o1 \in KillOutcomes(kill) :
           \E o2 \in (IF o1.threw THEN {NoThrow} ELSE Outcomes(stopped)) :
              LET tried == IF o1.threw THEN Attempt(<<kill>>, 1)
                           ELSE IF o2.threw THEN Attempt(<<kill, stopped>>, 2)
                           ELSE <<kill, stopped>>
                  caught == IF o1.threw THEN o1 ELSE o2
                  failed == Call("cleanup", "core.info",
                                 <<StopFailedMessage(pid, caught)>>)
                  left == reportFaults - ReportFault(stopped, o2)
              IN  \E o3 \in (IF caught.threw THEN OutcomesWith(failed, left)
                              ELSE {NoThrow}) :
                     /\ reportFaults' = left - ReportFault(failed, o3)
                     /\ IF ~caught.threw
                        THEN /\ cleanup' = [cleanup EXCEPT !.pc = StopServerNext(caught)]
                             /\ calls' = calls \o tried
                        ELSE IF ~o3.threw
                        THEN /\ cleanup' = [cleanup EXCEPT !.pc = StopServerNext(caught),
                                                           !.killError = caught]
                             /\ calls' = calls \o tried \o <<failed>>
                        ELSE /\ cleanup' = CleanupThrow(
                                    [cleanup EXCEPT !.killError = caught], "stopServer", o3)
                             /\ calls' = calls \o tried \o Attempt(<<failed>>, 1)
                                               \o CleanupCatchCalls("stopServer", o3)
    /\ UNCHANGED <<launcher, savedState, ambientEnv, probe>>

\* lines 224-230 and 208: displayLogs() starts displayLogFile for each log
\* file, each of which issues its fs.readFile and waits for it
DisplayLogs ==
    /\ cleanup.pc = "displayLogs"
    /\ cleanup' = [cleanup EXCEPT !.pc = "awaitLogs",
                      !.reads = [f \in 1..Len(LogFiles) |-> "reading"]]
    /\ calls' = calls \o [f \in 1..Len(LogFiles) |->
                             Call("cleanup", "fs.readFile", <<LogFiles[f], "utf8">>)]
    /\ UNCHANGED <<launcher, savedState, ambientEnv, probe, reportFaults>>

\* a display that emits the content after it has closed the group
DisplayCallsReportOutsideGroup(logFile, logContent) ==
    IF Trim(logContent) # ""
    THEN <<Call("cleanup", "core.startGroup", <<GroupTitle(logFile)>>),
           Call("cleanup", "core.endGroup", <<>>),
           Call("cleanup", "core.info", <<IndentedContent(logContent)>>)>>
    ELSE <<>>

\* the calls of displayLogFile's try block once the file was read
DisplayCalls(logFile, logContent) ==
    IF Trim(logContent) # ""
    THEN <<Call("cleanup", "core.startGroup", <<GroupTitle(logFile)>>),
           Call("cleanup", "core.info", <<IndentedContent(logContent)>>),
           Call("cleanup", "core.endGroup", <<>>)>>
    ELSE <<>>

\* lines 208-221 and 230, 245-249: fs.readFile of log file f settles and the
\* rest of displayLogFile runs; then Promise.all and cleanupCacheServer
\* continue when this settles them
ReadComplete(f) ==
    /\ cleanup.reads[f] = "reading"
    /\ \E read \in ReadResults :
         LET cs == IF read.error.threw THEN <<>>
                   ELSE DisplayCalls(LogFiles[f], read.content)
         IN  \E fault \in Faults(cs) :
               LET caught == IF read.error.threw THEN read.error ELSE fault.error
                   debug == Call("cleanup", "core.debug",
                                 <<ReadFailedMessage(LogFiles[f], caught)>>)
                   left == reportFaults - FaultUse(cs, fault)
               IN  \E o \in (IF caught.threw THEN OutcomesWith(debug, left)
                              ELSE {NoThrow}) :
                     LET rejected == caught.threw /\ o.threw
                         made == Attempt(cs, fault.at)
                                 \o (IF ~caught.threw THEN <<>>
                                     ELSE IF o.threw THEN Attempt(<<debug>>, 1)
                                     ELSE <<debug>>)
                         settled == [cleanup EXCEPT
                                       !.reads[f] = IF rejected THEN "rejected"
                                                    ELSE "resolved",
                                       !.results[f] = read]
                     IN  /\ reportFaults' = left - ReportFault(debug, o)
                         /\ IF cleanup.pc # "awaitLogs"
                            THEN /\ cleanup' = settled
                                 /\ calls' = calls \o made
                            ELSE IF rejected
                            THEN /\ cleanup' = CleanupThrow(settled, "displayLogs", o)
                                 /\ calls' = calls \o made
                                                   \o CleanupCatchCalls("displayLogs", o)
                            ELSE IF \A g \in 1..Len(LogFiles) : settled.reads[g] = "resolved"
                            THEN /\ cleanup' = [settled EXCEPT !.pc = "done",
                                                               !.promise = "resolved"]
                                 /\ calls' = calls \o made
                            ELSE /\ cleanup' = settled
                                 /\ calls' = calls \o made
    /\ UNCHANGED <<launcher, savedState, ambientEnv, probe>>

CleanupInit ==
    [pc |-> "getState", serverPid |-> "", error |-> NoThrow, failedAt |-> "",
     killError |-> NoThrow, promise |-> "pending",
     reads |-> [f \in 1..Len(LogFiles) |-> "idle"],
     results |-> [f \in 1..Len(LogFiles) |-> [content |-> "", error |-> NoThrow]]]

CleanupNext ==
    \/ ReadState
    \/ StopServer
    \/ DisplayLogs
    \/ \E f \in 1..Len(LogFiles) : ReadComplete(f)

---------------------------------------------------------------------------
(* One job: the launcher runs, then the cleanup.                           *)

InitCommon ==
    /\ launcher = LauncherInit
    /\ cleanup = CleanupInit
    /\ calls = <<>>
    /\ savedState = <<>>
    /\ ambientEnv \in AmbientEnvs
    /\ probe = NoProbe

\* the reporting calls never throw
Init == InitCommon /\ reportFaults = 0

\* up to MaxReportFaults reporting calls throw as well
InitReportFaults == InitCommon /\ reportFaults = MaxReportFaults

Next == LauncherNext \/ CleanupNext

Spec == Init /\ [][Next]_vars

SpecReportFaults == InitReportFaults /\ [][Next]_vars

\* the launcher up to the validation of its ServerEnvironment, and the schema
\* on its own
NextSchema ==
    \/ MkLogDir
    \/ AllocatePort
    \/ ReadInputs
    \/ Publish
    \/ Validate
    \/ SchemaProbe

SpecSchema == Init /\ [][NextSchema]_vars

---------------------------------------------------------------------------
(* Properties.                                                             *)

\* the positions in `calls` of the calls of `op` made by phase `by`
Idx(by, op) == {i \in DOMAIN calls : calls[i].by = by /\ calls[i].op = op}

\* the launcher returned without having thrown
LaunchSucceeded == launcher.promise = "resolved" /\ ~launcher.error.threw

\* waitPort resolved with open: false
PortReportedClosed == launcher.polled /\ ~launcher.open

\* core.getState returned in the cleanup
StateReadReturned == \E i \in Idx("cleanup", "core.getState") : calls[i].ok

\* the cleanup got past stopServer
StopServerReturned == cleanup.pc \in {"displayLogs", "awaitLogs", "done"}

\* the launcher's writes of a key and the cleanup's reads of it
Writes(key) == {i \in Idx("launcher", "core.saveState") : calls[i].args[1] = key}
Reads(key) == {i \in Idx("cleanup", "core.getState") : calls[i].args[1] = key}

HandoffKeys == {"serverPid", "serverPort"}

\* C1: when waitPort reports the allocated port closed, the launcher signals a
\* failure whose message contains the decimal port and "did not open within
\* 30 seconds", and no saveState call is made and nothing is persisted, in
\* this state and in every later one of the job.
C1_TimeoutFailsWithoutState ==
    PortReportedClosed =>
        /\ \E i \in Idx("launcher", "core.setFailed") :
              /\ Contains(calls[i].args[1], NumberToString(launcher.port))
              /\ Contains(calls[i].args[1], "did not open within 30 seconds")
        /\ Idx("launcher", "core.saveState") = {}
        /\ DOMAIN savedState = {}

C1_Witness ==
    /\ PortReportedClosed
    /\ launcher.port = 4001
    /\ cleanup.pc = "done"

\* C2: whatever a launcher step raises, the process is not ended by it, the
\* promise of startCacheServer is never rejected and exactly one failure is
\* signalled, with the message "Failed to start Turborepo Remote Cache
\* Server: " followed by the message of what was thrown (String(error) when
\* it is no Error); a launcher in which nothing was thrown signals no
\* failure.  The 'error' event of a child that could not be spawned is raised
\* outside the try block and ends the process.
C2_LauncherCatchesEverything ==
    /\ launcher.promise # "rejected"
    /\ ~launcher.crashed
    /\ launcher.error.threw =>
          /\ Cardinality(Idx("launcher", "core.setFailed")) = 1
          /\ \A i \in Idx("launcher", "core.setFailed") :
                calls[i].args[1] =
                    "Failed to start Turborepo Remote Cache Server: "
                    \o (IF launcher.error.isError THEN launcher.error.message
                        ELSE launcher.error.value)
    /\ ~launcher.error.threw => Idx("launcher", "core.setFailed") = {}

\* C3: a launcher that returns without error has persisted serverPid as the
\* decimal pid of the child ('' for a child without pid) and serverPort as the
\* decimal port, each parsing back to the number; and every saveState call
\* comes after a waitPort call that reported the port open.
C3_SuccessPersistsPidAndPort ==
    /\ LaunchSucceeded =>
          /\ launcher.open
          /\ DOMAIN savedState = HandoffKeys
          /\ savedState["serverPid"] =
                (IF launcher.child.hasPid THEN NumberToString(launcher.child.pid)
                 ELSE "")
          /\ savedState["serverPort"] = NumberToString(launcher.port)
          /\ launcher.child.hasPid =>
                ParseInt(savedState["serverPid"])
                    = [isNaN |-> FALSE, n |-> launcher.child.pid]
          /\ ParseInt(savedState["serverPort"]) = [isNaN |-> FALSE, n |-> launcher.port]
    /\ \A i \in Idx("launcher", "core.saveState") :
          /\ launcher.open
          /\ \E j \in 1..(i - 1) : calls[j].op = "waitPort" /\ calls[j].ok

C3_Witness ==
    /\ LaunchSucceeded
    /\ launcher.child.hasPid
    /\ DOMAIN savedState = HandoffKeys
    /\ savedState["serverPid"] = "54321"
    /\ savedState["serverPort"] = "4001"

\* C4: when core.getState returns and the persisted serverPid is unset or '',
\* the cleanup has ended without any process.kill call, with the "was not
\* started or PID not found" info and without a failure signal.
C4_NoPidNoKill ==
    (/\ StateReadReturned
     /\ ("serverPid" \notin DOMAIN savedState \/ savedState["serverPid"] = "")) =>
        /\ cleanup.pc = "done"
        /\ cleanup.promise = "resolved"
        /\ Idx("cleanup", "process.kill") = {}
        /\ \E i \in Idx("cleanup", "core.info") :
              calls[i].args[1] =
                  "{U+274C} Turborepo Remote Cache Server was not started or PID not found"
        /\ Idx("cleanup", "core.setFailed") = {}

C4_Witness ==
    /\ StateReadReturned
    /\ "serverPid" \in DOMAIN savedState
    /\ savedState["serverPid"] = ""
    /\ cleanup.pc = "done"

\* C5: when process.kill throws, the next call is the info "Failed to stop
\* server process {pid}: {message}", no failure is signalled, and the cleanup
\* goes on to read both log files; it reads them after a kill that returned
\* as well.
C5_KillFailureStillReadsLogs ==
    \A i \in Idx("cleanup", "process.kill") :
        /\ ~calls[i].ok =>
              /\ i < Len(calls)
              /\ calls[i + 1].by = "cleanup"
              /\ calls[i + 1].op = "core.info"
              /\ calls[i + 1].args[1] =
                    "{U+274C} Failed to stop server process " \o cleanup.serverPid
                    \o ": " \o (IF cleanup.killError.isError
                                THEN cleanup.killError.message
                                ELSE cleanup.killError.value)
              /\ Idx("cleanup", "core.setFailed") = {}
              /\ StopServerReturned
        /\ cleanup.pc \in {"awaitLogs", "done"} =>
              \A file \in {"logs/turborepo-remote-cache.log",
                           "logs/turborepo-remote-cache-error.log"} :
                 \E j \in Idx("cleanup", "fs.readFile") :
                    j > i /\ calls[j].args = <<file, "utf8">>

C5_Witness ==
    /\ \E i \in Idx("cleanup", "process.kill") : ~calls[i].ok
    /\ \E i \in Idx("cleanup", "core.info") :
          calls[i].args[1] = "{U+274C} Failed to stop server process 12345: boom"
    /\ Cardinality(Idx("cleanup", "fs.readFile")) = 2
    /\ cleanup.pc = "done"

\* C6: the cleanup calls process.kill at most once, and only with the pid of
\* the launcher's child and SIGTERM; once stopServer has run after a
\* successful launch whose child has a pid, it has called it exactly once.
C6_KillsExactlyTheChild ==
    /\ Cardinality(Idx("cleanup", "process.kill")) <= 1
    /\ \A i \in Idx("cleanup", "process.kill") :
          /\ launcher.child.hasPid
          /\ calls[i].args = <<[isNaN |-> FALSE, n |-> launcher.child.pid], "SIGTERM">>
    /\ (LaunchSucceeded /\ launcher.child.hasPid /\ StateReadReturned
           /\ StopServerReturned) =>
          Cardinality(Idx("cleanup", "process.kill")) = 1

C6_Witness ==
    /\ LaunchSucceeded
    /\ launcher.child.pid = 54321
    /\ \E i \in Idx("cleanup", "process.kill") :
          calls[i].ok /\ calls[i].args[1].n = 54321
    /\ cleanup.pc = "done"

\* C7: every published TURBO_API is the host input ("http://127.0.0.1" when
\* it is '') followed by ":" and the decimal port, and nothing else.
C7_TurboApiIsHostColonPort ==
    \A i \in Idx("launcher", "core.exportVariable") :
        calls[i].args[1] = "TURBO_API" =>
            LET h == IF launcher.hostInput = "" THEN "http://127.0.0.1"
                     ELSE launcher.hostInput
                api == calls[i].args[2]
            IN  /\ api = h \o ":" \o NumberToString(launcher.port)
                /\ ParseInt(SubSeq(api, Len(h) + 2, Len(api)))
                      = [isNaN |-> FALSE, n |-> launcher.port]

C7_Witness ==
    /\ launcher.hostInput = "http://localhost"
    /\ \E i \in Idx("launcher", "core.exportVariable") :
          calls[i].ok /\ calls[i].args = <<"TURBO_API", "http://localhost:4001">>

\* C8 as stated: in a job whose launch succeeded and whose cleanup ended, each
\* of serverPid and serverPort was written exactly once by the launcher and
\* read exactly once by the cleanup.
C8_EachKeyWrittenOnceReadOnce ==
    (LaunchSucceeded /\ cleanup.pc = "done") =>
        \A key \in HandoffKeys :
            Cardinality(Writes(key)) = 1 /\ Cardinality(Reads(key)) = 1

\* C8 amended: the launcher writes each key at most once, and exactly once
\* when it succeeds; the cleanup reads serverPid exactly once and never reads
\* serverPort; the launcher reads no state and the cleanup writes none.
C8_KeysWrittenOncePidReadOnce ==
    /\ \A key \in HandoffKeys : Cardinality(Writes(key)) <= 1
    /\ LaunchSucceeded =>
          \A key \in HandoffKeys :
              Cardinality(Writes(key)) = 1 /\ \A i \in Writes(key) : calls[i].ok
    /\ Reads("serverPort") = {}
    /\ Cardinality(Reads("serverPid")) = (IF cleanup.pc = "getState" THEN 0 ELSE 1)
    /\ Idx("cleanup", "core.getState") = Reads("serverPid")
    /\ Idx("launcher", "core.getState") = {}
    /\ Idx("cleanup", "core.saveState") = {}

C8_Witness ==
    /\ LaunchSucceeded
    /\ cleanup.pc = "done"
    /\ \A key \in HandoffKeys : Cardinality(Writes(key)) = 1
    /\ Cardinality(Reads("serverPid")) = 1

\* C9: the promise of cleanupCacheServer is never rejected; it signals at most
\* one failure, only for an error that escaped the state read, stopServer or
\* displayLogs, with the message "Error in post action: " followed by the
\* message of that error; and every such error is signalled.
C9_OnlyTopLevelCatchFails ==
    /\ cleanup.promise # "rejected"
    /\ Cardinality(Idx("cleanup", "core.setFailed")) <= 1
    /\ \A i \in Idx("cleanup", "core.setFailed") :
          /\ cleanup.error.threw
          /\ cleanup.failedAt \in {"getState", "stopServer", "displayLogs"}
          /\ calls[i].args[1] =
                "Error in post action: "
                \o (IF cleanup.error.isError THEN cleanup.error.message
                    ELSE cleanup.error.value)
    /\ cleanup.error.threw => Idx("cleanup", "core.setFailed") # {}

C9_Witness ==
    /\ cleanup.failedAt = "getState"
    /\ cleanup.promise = "resolved"
    /\ \E i \in Idx("cleanup", "core.setFailed") :
          calls[i].args[1] = "Error in post action: boom"

\* C10: the cleanup never marks the workflow as failed, whatever goes wrong
\* in the state read, the termination signal or the log reading.
C10_CleanupNeverFailsWorkflow == Idx("cleanup", "core.setFailed") = {}

\* fs.readFile of log file f has settled and displayLogFile has run
Settled(f) == cleanup.reads[f] \in {"resolved", "rejected"}

\* log file f was read successfully
ReadOk(f) == Settled(f) /\ ~cleanup.results[f].error.threw

\* s is empty or consists of whitespace only
Blank(s) == SkipWhitespace(s, 1) > Len(s)

\* the groups opened for log file f
Groups(f) ==
    {i \in Idx("cleanup", "core.startGroup") :
        calls[i].args[1] = "{U+1F4CB} " \o LogFiles[f]}

\* the log files read successfully with content that is not blank
Shown == {f \in 1..Len(LogFiles) : ReadOk(f) /\ ~Blank(cleanup.results[f].content)}

\* C11: for each log file read successfully whose content is not blank, the
\* cleanup opens exactly one group titled with the file's path, immediately
\* followed by one info report and the end of the group; the report has as
\* many '\n'-separated lines as the file, and each is the file's line at the
\* same position prefixed by exactly two spaces.
C11_LogLinesIndentedInOrder ==
    \A f \in Shown :
        /\ Cardinality(Groups(f)) = 1
        /\ \A i \in Groups(f) :
              /\ i + 2 <= Len(calls)
              /\ calls[i + 1].by = "cleanup" /\ calls[i + 1].op = "core.info"
              /\ calls[i + 2].by = "cleanup" /\ calls[i + 2].op = "core.endGroup"
              /\ LET lines == Split(cleanup.results[f].content)
                     shown == Split(calls[i + 1].args[1])
                 IN  /\ Len(shown) = Len(lines)
                     /\ \A k \in 1..Len(lines) :
                           /\ Len(shown[k]) = Len(lines[k]) + 2
                           /\ SubSeq(shown[k], 1, 2) = "  "
                           /\ SubSeq(shown[k], 3, Len(shown[k])) = lines[k]

C11_Witness ==
    /\ cleanup.pc = "done"
    /\ ReadOk(2)
    /\ cleanup.results[2].content = "Line 1\n\n  Line 3\n"
    /\ \E i \in Idx("cleanup", "core.startGroup") :
          /\ calls[i].args[1] = "{U+1F4CB} logs/turborepo-remote-cache-error.log"
          /\ calls[i + 1].args[1] = "  Line 1\n  \n    Line 3\n  "

\* C12: for a log file read successfully whose content is empty or blank, no
\* group is opened; and the numbers of startGroup calls, of indented info
\* reports and of endGroup calls all equal the number of files read with
\* content that is not blank.
C12_BlankLogsAreSkipped ==
    /\ \A f \in 1..Len(LogFiles) :
          (ReadOk(f) /\ Blank(cleanup.results[f].content)) => Groups(f) = {}
    /\ Cardinality(Idx("cleanup", "core.startGroup")) = Cardinality(Shown)
    /\ Cardinality(Idx("cleanup", "core.endGroup")) = Cardinality(Shown)
    /\ Cardinality({i \in Idx("cleanup", "core.info") :
                       SubSeq(calls[i].args[1], 1, 2) = "  "}) = Cardinality(Shown)

C12_Witness ==
    /\ cleanup.pc = "done"
    /\ ReadOk(1) /\ cleanup.results[1].content = BlankLog
    /\ ReadOk(2) /\ cleanup.results[2].content = "Line 1\n\n  Line 3\n"
    /\ Cardinality(Idx("cleanup", "core.startGroup")) = 1

\* C13: when reading log file f fails, the cleanup emits the debug message
\* "Could not read log file {path}: {message}" for it and signals no failure;
\* the other file's read was issued all the same, is displayed in one group
\* when it yields content that is not blank, and the cleanup ends normally
\* once both reads have settled.
C13_LogFilesIndependent ==
    \A f \in 1..Len(LogFiles) :
        (Settled(f) /\ cleanup.results[f].error.threw) =>
            /\ \E i \in Idx("cleanup", "core.debug") :
                  calls[i].args[1] =
                      "Could not read log file " \o LogFiles[f] \o ": "
                      \o (IF cleanup.results[f].error.isError
                          THEN cleanup.results[f].error.message
                          ELSE cleanup.results[f].error.value)
            /\ Idx("cleanup", "core.setFailed") = {}
            /\ \A g \in (1..Len(LogFiles)) \ {f} :
                  /\ \E j \in Idx("cleanup", "fs.readFile") :
                        calls[j].args = <<LogFiles[g], "utf8">>
                  /\ g \in Shown => Cardinality(Groups(g)) = 1
                  /\ Settled(g) => cleanup.pc = "done" /\ cleanup.promise = "resolved"

C13_Witness ==
    /\ cleanup.pc = "done"
    /\ cleanup.results[1].error.threw
    /\ \E i \in Idx("cleanup", "core.debug") :
          calls[i].args[1] =
              "Could not read log file logs/turborepo-remote-cache.log: EACCES: permission denied"
    /\ 2 \in Shown
    /\ Cardinality(Groups(2)) = 1

\* the launcher's calls of core.exportVariable for one variable
Published(name) ==
    {i \in Idx("launcher", "core.exportVariable") : calls[i].args[1] = name}

PublishedNames == {"TURBO_API", "TURBO_TOKEN", "TURBO_TEAM"}

\* the launcher got past the step `step`
PastStep(step, earlier) ==
    /\ launcher.pc \notin earlier \cup {step}
    /\ launcher.failedAt \notin earlier \cup {step}

\* C14: the env option of every spawn call has the keys of process.env and of
\* the ServerEnvironment; each key of the ServerEnvironment, PORT and
\* TURBO_TOKEN among them, has the ServerEnvironment's value even when
\* process.env defines it, and every other key has the value of process.env.
\* process.env is by then what the launcher started with and the three
\* published variables: TURBO_API and TURBO_TEAM reach the child with their
\* published values, every key that is neither published nor of the
\* ServerEnvironment with the value the launcher started with.
C14_ChildEnvIsAmbientOverlaid ==
    \A i \in Idx("launcher", "spawn") :
        LET env == calls[i].args[3].env
            server == launcher.serverEnvData
        IN  /\ {"PORT", "TURBO_TOKEN"} \subseteq DOMAIN server
            /\ DOMAIN server \subseteq
                  {"PORT", "TURBO_TOKEN", "STORAGE_PROVIDER", "STORAGE_PATH"}
            /\ DOMAIN env = DOMAIN server \cup DOMAIN ambientEnv
            /\ \A k \in DOMAIN server : env[k] = server[k]
            /\ \A k \in DOMAIN ambientEnv \ DOMAIN server : env[k] = ambientEnv[k]
            /\ env["PORT"] = NumberToString(launcher.port)
            /\ env["TURBO_TOKEN"] = launcher.token
            /\ env["TURBO_API"] = launcher.turboApi
            /\ env["TURBO_TEAM"] = launcher.teamId
            /\ \E start \in AmbientEnvs :
                  /\ DOMAIN env = DOMAIN start \cup PublishedNames \cup DOMAIN server
                  /\ \A k \in DOMAIN start \ (PublishedNames \cup DOMAIN server) :
                        env[k] = start[k]

C14_Witness ==
    /\ launcher.spawned
    /\ ambientEnv["PORT"] = "1" /\ ambientEnv["STORAGE_PATH"] = "old"
    /\ launcher.teamId = "ci"
    /\ \E i \in Idx("launcher", "spawn") :
          LET env == calls[i].args[3].env
          IN  /\ env["PORT"] = "4001"
              /\ env["STORAGE_PATH"] = "my-bucket"
              /\ env["PATH"] = "/usr/bin"
              /\ env["STORAGE_PROVIDER"] = "ambient-provider"
              /\ env["TURBO_TOKEN"] = launcher.token /\ launcher.token # "stale"
              /\ env["TURBO_TEAM"] = "ci"
              /\ env["TURBO_API"] = launcher.turboApi

\* C15: every published TURBO_TOKEN has exactly 64 characters, each one of
\* 0-9 or a-f, and the TURBO_TOKEN in the env of every spawn call is the value
\* that was published before.
C15_TokenIs64HexAndShared ==
    /\ \A i \in Published("TURBO_TOKEN") :
          LET token == calls[i].args[2]
          IN  /\ Len(token) = 64
              /\ \A k \in 1..Len(token) :
                    Char(token, k) \in {"0", "1", "2", "3", "4", "5", "6", "7",
                                        "8", "9", "a", "b", "c", "d", "e", "f"}
    /\ \A j \in Idx("launcher", "spawn") :
          \E i \in Published("TURBO_TOKEN") :
              /\ i < j
              /\ calls[i].ok
              /\ calls[j].args[3].env["TURBO_TOKEN"] = calls[i].args[2]

C15_Witness ==
    /\ launcher.spawned
    /\ \E i \in Published("TURBO_TOKEN"), j \in Idx("launcher", "spawn") :
          /\ SubSeq(calls[i].args[2], 1, 6) = "0f171f"
          /\ Len(calls[i].args[2]) = 64
          /\ calls[j].args[3].env["TURBO_TOKEN"] = calls[i].args[2]

\* C16 as stated: TURBO_TEAM is the team-id input, or "ci" when that is empty,
\* and a launch that got past port allocation and has ended has published
\* each of TURBO_API, TURBO_TOKEN and TURBO_TEAM exactly once.
C16_PublishedOncePastAllocation ==
    /\ \A i \in Published("TURBO_TEAM") :
          calls[i].args[2] = (IF launcher.teamInput = "" THEN "ci" ELSE launcher.teamInput)
    /\ (launcher.pc = "done" /\ PastStep("allocate", {"mkdir"})) =>
          \A name \in PublishedNames :
              /\ Cardinality(Published(name)) = 1
              /\ \A i \in Published(name) : calls[i].ok

\* C16 amended: TURBO_TEAM is the team-id input, or "ci" when that is empty;
\* each of the three variables is published at most once and no other
\* variable is published; a launch that got past the publishing step has
\* published each exactly once, in the order TURBO_API, TURBO_TOKEN,
\* TURBO_TEAM.
C16_PublishedOncePastPublishing ==
    LET api == Published("TURBO_API")
        token == Published("TURBO_TOKEN")
        team == Published("TURBO_TEAM")
    IN  /\ \A i \in team :
              calls[i].args[2] =
                  (IF launcher.teamInput = "" THEN "ci" ELSE launcher.teamInput)
        /\ Cardinality(api) <= 1 /\ Cardinality(token) <= 1 /\ Cardinality(team) <= 1
        /\ Idx("launcher", "core.exportVariable") = api \cup token \cup team
        /\ PastStep("publish", {"mkdir", "allocate", "inputs"}) =>
              /\ Cardinality(api) = 1 /\ Cardinality(token) = 1 /\ Cardinality(team) = 1
              /\ \A i \in api \cup token \cup team : calls[i].ok
              /\ \A i \in api, j \in token, k \in team : i < j /\ j < k

C16_Witness ==
    /\ LaunchSucceeded
    /\ launcher.teamInput = ""
    /\ \E i \in Published("TURBO_TEAM") : calls[i].ok /\ calls[i].args[2] = "ci"
    /\ \A name \in PublishedNames : Cardinality(Published(name)) = 1

\* the operations that report, signal a failure or persist
VisibleOps ==
    {"core.info", "core.debug", "core.startGroup", "core.endGroup",
     "core.setFailed", "core.saveState", "core.getState"}

\* C17: once the token is generated, no argument of an info, debug, group,
\* failure or state call of the launcher or of the cleanup contains it, and no
\* value of the handoff state does; the only variable published with it is
\* TURBO_TOKEN.
C17_TokenNeverLoggedOrPersisted ==
    launcher.token # "" =>
        /\ \A i \in DOMAIN calls :
              calls[i].op \in VisibleOps =>
                  \A k \in DOMAIN calls[i].args :
                      ~Contains(calls[i].args[k], launcher.token)
        /\ \A key \in DOMAIN savedState : ~Contains(savedState[key], launcher.token)
        /\ \A i \in Idx("launcher", "core.exportVariable") :
              Contains(calls[i].args[2], launcher.token) => calls[i].args[1] = "TURBO_TOKEN"

C17_Witness ==
    /\ LaunchSucceeded
    /\ cleanup.pc = "done"
    /\ Len(launcher.token) = 64
    /\ \E i \in Published("TURBO_TOKEN") : calls[i].args[2] = launcher.token
    /\ Cardinality(Idx("launcher", "core.info")) = 7
    /\ Cardinality(Idx("cleanup", "core.startGroup")) = 2
    /\ DOMAIN savedState = HandoffKeys

\* the readiness report's lines that start with `prefix`
ReportLines(prefix) ==
    {i \in Idx("launcher", "core.info") :
        /\ Len(calls[i].args[1]) >= Len(prefix)
        /\ SubSeq(calls[i].args[1], 1, Len(prefix)) = prefix}

\* C18: STORAGE_PROVIDER is a key of the ServerEnvironment exactly when the
\* storage-provider input is not empty, STORAGE_PATH exactly when the
\* storage-path input is not empty, each with the input as its value; and a
\* finished readiness report has one "Storage Provider" line with the input
\* exactly when that input is not empty, and likewise one "Storage Path" line.
C18_StorageFieldsIndependent ==
    /\ \A i \in Idx("launcher", "ServerEnvSchema.parse") :
          LET data == calls[i].args[1]
          IN  /\ "STORAGE_PROVIDER" \in DOMAIN data <=> launcher.storageProvider # ""
              /\ "STORAGE_PATH" \in DOMAIN data <=> launcher.storagePath # ""
              /\ "STORAGE_PROVIDER" \in DOMAIN data =>
                    data["STORAGE_PROVIDER"] = launcher.storageProvider
              /\ "STORAGE_PATH" \in DOMAIN data =>
                    data["STORAGE_PATH"] = launcher.storagePath
              /\ calls[i].ok => launcher.serverEnvData = data
    /\ \A i \in ReportLines("   Storage Provider: ") :
          /\ launcher.storageProvider # ""
          /\ calls[i].args[1] = "   Storage Provider: " \o launcher.storageProvider
    /\ \A i \in ReportLines("   Storage Path: ") :
          /\ launcher.storagePath # ""
          /\ calls[i].args[1] = "   Storage Path: " \o launcher.storagePath
    /\ PastStep("report", {"mkdir", "allocate", "inputs", "publish", "validate",
                           "spawn", "wait"}) =>
          /\ Cardinality(ReportLines("   Storage Provider: "))
                = (IF launcher.storageProvider # "" THEN 1 ELSE 0)
          /\ Cardinality(ReportLines("   Storage Path: "))
                = (IF launcher.storagePath # "" THEN 1 ELSE 0)

C18_Witness ==
    /\ LaunchSucceeded
    /\ launcher.storageProvider = "s3"
    /\ launcher.storagePath = ""
    /\ DOMAIN launcher.serverEnvData = {"PORT", "TURBO_TOKEN", "STORAGE_PROVIDER"}
    /\ \E i \in Idx("launcher", "core.info") :
          calls[i].args[1] = "   Storage Provider: s3"
    /\ ReportLines("   Storage Path: ") = {}

\* the calls of the launcher
LauncherCalls == {i \in DOMAIN calls : calls[i].by = "launcher"}

\* the place of the launcher's operations in the order of the side effects
OpRank ==
    ("fs.mkdir" :> 1) @@ ("portfinder.getPortPromise" :> 2)
    @@ ("crypto.randomBytes" :> 3) @@ ("core.getInput" :> 4)
    @@ ("ServerEnvSchema.parse" :> 8) @@ ("spawn" :> 9) @@ ("unref" :> 10)
    @@ ("waitPort" :> 11) @@ ("core.info" :> 12) @@ ("core.setFailed" :> 15)

\* the place of a launcher call in the order of the side effects
EffectRank(c) ==
    IF c.op = "core.exportVariable"
    THEN (CASE c.args[1] = "TURBO_API" -> 5
            [] c.args[1] = "TURBO_TOKEN" -> 6
            [] c.args[1] = "TURBO_TEAM" -> 7
            [] OTHER -> 0)
    ELSE IF c.op = "core.saveState"
    THEN (CASE c.args[1] = "serverPid" -> 13
            [] c.args[1] = "serverPort" -> 14
            [] OTHER -> 0)
    ELSE IF c.op \in DOMAIN OpRank THEN OpRank[c.op] ELSE 0

\* C19: the launcher's calls come first in the job, starting with mkdir, each
\* of the same kind as the call before it or of the next kind, so that they
\* come in the order mkdir, port, token, inputs,
\* TURBO_API, TURBO_TOKEN, TURBO_TEAM, validation, spawn, readiness poll,
\* readiness report, serverPid, serverPort; a call other than the failure
\* signal is made only when every earlier call returned and every earlier
\* kind of effect has happened; the report is made only when the port was
\* reported open, and serverPid is saved only after the whole report.
C19_LauncherEffectsInOrder ==
    LET rank == [i \in DOMAIN calls |-> EffectRank(calls[i])]
    IN  /\ \A i \in DOMAIN calls :
              calls[i].by = "launcher" =>
                  /\ rank[i] \in 1..15
                  /\ i = 1 => rank[i] = 1
                  /\ (i > 1 /\ rank[i] < 15) =>
                        /\ calls[i - 1].by = "launcher"
                        /\ calls[i - 1].ok
                        /\ rank[i - 1] <= rank[i]
                        /\ rank[i] <= rank[i - 1] + 1
                  /\ (i > 1 /\ rank[i] = 15) => calls[i - 1].by = "launcher"
                  /\ (i < Len(calls) /\ calls[i + 1].by = "launcher") => rank[i] < 15
        /\ Idx("launcher", "core.info") # {} => launcher.open
        /\ \A j \in Idx("launcher", "core.saveState") :
              Cardinality({i \in Idx("launcher", "core.info") : i < j})
                  = 5 + (IF launcher.storageProvider # "" THEN 1 ELSE 0)
                      + (IF launcher.storagePath # "" THEN 1 ELSE 0)

C19_Witness ==
    /\ LaunchSucceeded
    /\ {EffectRank(calls[i]) : i \in LauncherCalls} = 1..14
    /\ \E i \in Idx("launcher", "spawn"), j \in Published("TURBO_TEAM") : j < i

\* C20: the `port` input is never read and the allocator is asked once; the
\* port the allocator returned is the number after the last ':' of TURBO_API,
\* the PORT of the child's env, the port of every readiness poll and the
\* persisted serverPort; and every readiness poll is on host "localhost" with
\* timeout 30000, whatever the host input is.
C20_OnePortEverywhere ==
    LET p == NumberToString(launcher.port)
    IN  /\ \A i \in Idx("launcher", "core.getInput") :
              calls[i].args[1] \in {"storage-provider", "storage-path", "team-id", "host"}
        /\ Cardinality(Idx("launcher", "portfinder.getPortPromise")) <= 1
        /\ \A i \in Published("TURBO_API") :
              LET api == calls[i].args[2]
              IN  /\ Len(api) > Len(p)
                  /\ SubSeq(api, Len(api) - Len(p), Len(api)) = ":" \o p
                  /\ ParseInt(SubSeq(api, Len(api) - Len(p) + 1, Len(api)))
                        = [isNaN |-> FALSE, n |-> launcher.port]
        /\ \A i \in Idx("launcher", "spawn") :
              /\ calls[i].args[3].env["PORT"] = p
              /\ ParseInt(calls[i].args[3].env["PORT"])
                    = [isNaN |-> FALSE, n |-> launcher.port]
        /\ \A i \in Idx("launcher", "waitPort") :
              calls[i].args = <<"localhost", launcher.port, 30000>>
        /\ \A i \in Writes("serverPort") :
              /\ calls[i].args[2] = p
              /\ ParseInt(calls[i].args[2]) = [isNaN |-> FALSE, n |-> launcher.port]
        /\ Idx("launcher", "spawn") # {} => launcher.port \in {3000 + 1001 * k : k \in 0..9}

C20_Witness ==
    /\ LaunchSucceeded
    /\ launcher.hostInput = "http://localhost"
    /\ \E i \in Published("TURBO_API") : calls[i].args[2] = "http://localhost:4001"
    /\ \E i \in Idx("launcher", "spawn") : calls[i].args[3].env["PORT"] = "4001"
    /\ \E i \in Idx("launcher", "waitPort") : calls[i].args = <<"localhost", 4001, 30000>>
    /\ \E i \in Writes("serverPort") : calls[i].args[2] = "4001"

\* the four fields of the ServerEnvironment
EnvFields == {"PORT", "TURBO_TOKEN", "STORAGE_PROVIDER", "STORAGE_PATH"}

\* C21: the launcher never fails in the validation step, and every record it
\* gives to ServerEnvSchema.parse has PORT and TURBO_TOKEN, has no key outside
\* the four fields, and is accepted; and the schema rejects a record exactly
\* when it lacks PORT or TURBO_TOKEN or has a value that is no string in one
\* of the four fields, returning an accepted record unchanged.
C21_ConstructedEnvAlwaysValid ==
    /\ launcher.failedAt # "validate"
    /\ \A i \in Idx("launcher", "ServerEnvSchema.parse") :
          /\ calls[i].ok
          /\ {"PORT", "TURBO_TOKEN"} \subseteq DOMAIN calls[i].args[1]
          /\ DOMAIN calls[i].args[1] \subseteq EnvFields
    /\ probe.done =>
          LET d == probe.data
              rejected ==
                  \/ "PORT" \notin DOMAIN d
                  \/ "TURBO_TOKEN" \notin DOMAIN d
                  \/ \E k \in EnvFields \cap DOMAIN d : d[k].type # "string"
          IN  /\ rejected <=> ~probe.result.success
              /\ ~rejected => probe.result.data = d

C21_Witness ==
    /\ launcher.pc = "spawn"
    /\ launcher.storageProvider = "" /\ launcher.storagePath = "my-bucket"
    /\ DOMAIN launcher.serverEnvData = {"PORT", "TURBO_TOKEN", "STORAGE_PATH"}
    /\ probe.done
    /\ DOMAIN probe.data = {"PORT", "TURBO_TOKEN"}
    /\ probe.data["PORT"].type = "number"
    /\ probe.data["TURBO_TOKEN"].type = "string"
    /\ ~probe.result.success
    /\ probe.result.issues = {"PORT"}

\* `report` has the lines of `content`, each behind two more characters
SameLines(report, content) ==
    LET lines == Split(content)
        shown == Split(report)
    IN  /\ Len(shown) = Len(lines)
        /\ \A k \in 1..Len(lines) : SubSeq(shown[k], 3, Len(shown[k])) = lines[k]

\* C22: in every order in which the two reads complete, every startGroup is
\* for one of the two log files and is immediately followed by the report of
\* that file's content and then by endGroup, every endGroup closes a group
\* opened two calls before, and each file has at most one group.
C22_GroupsNeverInterleave ==
    /\ \A i \in DOMAIN calls :
          /\ calls[i].op = "core.startGroup" =>
                /\ i + 2 <= Len(calls)
                /\ calls[i + 1].op = "core.info"
                /\ calls[i + 2].op = "core.endGroup"
                /\ \E f \in 1..Len(LogFiles) :
                      /\ i \in Groups(f)
                      /\ ReadOk(f)
                      /\ SameLines(calls[i + 1].args[1], cleanup.results[f].content)
          /\ calls[i].op = "core.endGroup" =>
                i > 2 /\ calls[i - 2].op = "core.startGroup"
    /\ \A f \in 1..Len(LogFiles) : Cardinality(Groups(f)) <= 1

C22_Witness ==
    /\ cleanup.pc = "done"
    /\ \E i \in Groups(2), j \in Groups(1) :
          /\ i + 3 = j
          /\ calls[i + 2].op = "core.endGroup"
          /\ calls[j + 2].op = "core.endGroup"

\* the cleanup ended by reporting that no server was started
ReportedNotStarted ==
    /\ cleanup.pc = "done"
    /\ calls[Len(calls)].by = "cleanup"
    /\ calls[Len(calls)].op = "core.info"
    /\ calls[Len(calls)].args[1] =
          "{U+274C} Turborepo Remote Cache Server was not started or PID not found"

\* C23: when the launcher has spawned the child and then fails in the
\* readiness poll, in the report or in the write of serverPid, no serverPid
\* is persisted, no call of either phase is a process.kill, and a cleanup
\* whose state read returned has ended by reporting "not started".
C23_FailedLaunchNeverSignalled ==
    (/\ launcher.spawned
     /\ launcher.error.threw
     /\ \/ launcher.failedAt \in {"wait", "report"}
        \/ launcher.failedAt = "persist" /\ ~calls[CHOOSE i \in Writes("serverPid") : TRUE].ok)
    =>  /\ "serverPid" \notin DOMAIN savedState
        /\ \A i \in DOMAIN calls : calls[i].op # "process.kill"
        /\ cleanup.pc \in {"getState", "done"}
        /\ (cleanup.pc = "done" /\ ~cleanup.error.threw) => ReportedNotStarted

C23_Witness ==
    /\ launcher.spawned
    /\ launcher.child.pid = 12345
    /\ launcher.failedAt = "report"
    /\ Idx("launcher", "core.saveState") = {}
    /\ ReportedNotStarted

\* C24: whenever the launcher has signalled a failure no handoff key is
\* persisted, and whenever a handoff key is persisted both are and the
\* launcher has signalled no failure once it has ended.
C24_OutcomesMutuallyExclusive ==
    /\ Idx("launcher", "core.setFailed") # {} => DOMAIN savedState = {}
    /\ (launcher.pc = "done" /\ DOMAIN savedState # {}) =>
          /\ DOMAIN savedState = HandoffKeys
          /\ Idx("launcher", "core.setFailed") = {}

\* C25: when the creation of the log directory or the port allocation fails,
\* the launcher's calls are the ones up to the failed call followed by one
\* failure signal: no token is generated, no input read, no variable
\* published, no child spawned, no readiness polled, nothing reported and
\* nothing persisted.
C25_AllocationFailureLeavesNoTrace ==
    (\/ launcher.failedAt = "mkdir"
     \/ launcher.failedAt = "allocate" /\ ~calls[2].ok)
    =>  LET n == IF launcher.failedAt = "mkdir" THEN 1 ELSE 2
        IN  /\ calls[1].op = "fs.mkdir"
            /\ n = 2 => calls[2].op = "portfinder.getPortPromise"
            /\ ~calls[n].ok
            /\ calls[n + 1].by = "launcher"
            /\ calls[n + 1].op = "core.setFailed"
            /\ \A i \in (n + 2)..Len(calls) : calls[i].by = "cleanup"
            /\ ~launcher.spawned /\ ~launcher.polled
            /\ launcher.token = ""
            /\ DOMAIN savedState = {}
            /\ launcher.promise = "resolved"

C25_Witness ==
    /\ launcher.failedAt = "allocate"
    /\ calls[2].op = "portfinder.getPortPromise" /\ ~calls[2].ok
    /\ calls[3].op = "core.setFailed"
    /\ calls[3].args[1] =
          "Failed to start Turborepo Remote Cache Server: EACCES: permission denied"
    /\ cleanup.pc = "done"

\* C26: when the child has no pid and the launch succeeds, the launcher has
\* signalled no failure and has persisted serverPid as the empty string; and
\* a cleanup whose state read returned has ended by reporting "not started",
\* without a process.kill, a readFile or a group.
C26_NoPidChildIsLeftRunning ==
    (LaunchSucceeded /\ ~launcher.child.hasPid) =>
        /\ launcher.open
        /\ "serverPid" \in DOMAIN savedState /\ savedState["serverPid"] = ""
        /\ \A i \in DOMAIN calls :
              calls[i].op \notin {"core.setFailed", "process.kill", "fs.readFile",
                                  "core.startGroup"}
              \/ (calls[i].by = "cleanup" /\ calls[i].op = "core.setFailed"
                  /\ cleanup.failedAt = "getState")
        /\ (cleanup.pc # "getState" /\ ~cleanup.error.threw) => ReportedNotStarted

C26_Witness ==
    /\ LaunchSucceeded
    /\ ~launcher.child.hasPid
    /\ savedState["serverPid"] = ""
    /\ \E i \in Idx("launcher", "core.info") : calls[i].args[1] = "   PID: undefined"
    /\ ReportedNotStarted

=============================================================================
